---- MODULE Spec2Model ----
(***************************************************************************)
(* A model of tari_utilities' secret-hiding types: Hidden<T, L>            *)
(* (src/src/hidden.rs) and SafePassword (src/src/password.rs).             *)
(*                                                                         *)
(*   Spec          the life cycle of Hidden cells held by the bindings of  *)
(*                 a call stack: hide, clone, move, reveal, reveal_mut,    *)
(*                 zeroize, eq, drop, scope exit and unwinding.            *)
(*   SpecFmt       Debug and Display of two cells of one type and label.   *)
(*   SpecSerde     a cell or a SafePassword serialized and deserialized.   *)
(*   SpecPassword  a SafePassword made from a text.                        *)
(***************************************************************************)
EXTENDS Integers, Sequences, FiniteSets, TLC

(***************************************************************************)
(* Bounds of the model.                                                    *)
(***************************************************************************)
\* Number of heap boxes (Box<T>) a behaviour may allocate.
MaxBoxes == 2
\* Number of bindings (local variables, parameters) that can hold a Hidden.
MaxSlots == 2
\* Deepest call stack.
MaxDepth == 1
\* N of the modelled [u8; N].
ArrayLen == 1
\* Longest Vec<u8> a cell is created with.
MaxLen == 1

\* The byte values the program hides and writes (u8 is 0..255 in the
\* program); 0 is what a wipe leaves.
SampleBytes == {1, 42}

Addrs == 1..MaxBoxes
Slots == 1..MaxSlots

\* The wrapped types T the repository uses Hidden with: u8 (the tests),
\* [u8; N] (the documentation) and Vec<u8> (SafePassword).
Types == {"u8", "array", "vec"}

SeqsOf(S, n) == [1..n -> S]

SeqsUpTo(S, n) == UNION {SeqsOf(S, k) : k \in 0..n}

\* The values of type T, as their bytes.
ValuesOf(ty) ==
    CASE ty = "u8" -> SeqsOf(SampleBytes, 1)
      [] ty = "array" -> SeqsOf(SampleBytes, ArrayLen)
      [] ty = "vec" -> SeqsUpTo(SampleBytes, MaxLen)

Zeros(n) == [i \in 1..n |-> 0]

(***************************************************************************)
(* The storage behind a Box<T>: `bytes` is the memory that holds the       *)
(* value, `len` the number of bytes that are the value: all of them,       *)
(* except for a Vec<u8> that was cleared.                                  *)
(***************************************************************************)
\* Box::new(inner), hidden.rs:175
BoxNew(v) == [bytes |-> v, len |-> Len(v)]

\* Deref of the box: the value T the storage holds.
Deref(box) == SubSeq(box.bytes, 1, box.len)

\* A write of value w through the &mut T that reveal_mut returns.
Write(box, w) == [bytes |-> w, len |-> Len(w)]

\* T::zeroize: integers and arrays are set to zero; a Vec<u8> has the bytes
\* of its buffer zeroed and is cleared (its length becomes 0).
ZeroizeT(ty, box) ==
    [bytes |-> Zeros(Len(box.bytes)), len |-> IF ty = "vec" THEN 0 ELSE box.len]

\* impl Zeroize for Hidden: self.inner.zeroize()
HiddenZeroize(ty, box) == ZeroizeT(ty, box)

\* A Drop that releases the box without wiping it.
DropNoWipe(ty, box) == box

\* impl Drop for Hidden: self.zeroize(), after which the box is released.
HiddenDrop(ty, box) == HiddenZeroize(ty, box)

(***************************************************************************)
(* State.                                                                  *)
(***************************************************************************)
VARIABLES
    T,       \* the wrapped type of the cells of this behaviour
    mem,     \* Addrs -> the storage of each box (kept after release)
    alloc,   \* Addrs -> "unused" | "live" | "freed"
    drops,   \* Addrs -> how many times Drop::drop ran on the box
    slots,   \* Slots -> the binding: st, inner (the box), frame, stored
    depth,   \* the depth of the call stack
    last,    \* the last operation and what it returned
    arg,     \* the input of a call of a pure function (formatting, serde, ...)
    res,     \* what that call returned
    kind,    \* the lock the macros of locks.rs are used on: Mutex or RwLock
    data,    \* the value the lock protects
    poisoned,\* the poison flag of the lock
    threads, \* LockThreads -> pc, the guard held, what acquiring it gave
    clean,   \* history: data as the last critical section that did not panic left it
    clock,   \* the system clock: what SystemTime::now() reads
    stamps   \* what the calls of EpochTime::now() returned, in their order

lifeVars == <<T, mem, alloc, drops, slots, depth, last>>

lockVars == <<kind, data, poisoned, threads, clean>>

timeVars == <<clock, stamps>>

vars == <<lifeVars, arg, res, lockVars, timeVars>>

\* No call of a pure function is being followed.
Idle == [op |-> "idle"]

NoBox == [bytes |-> <<>>, len |-> 0]

\* A binding that holds nothing (never initialised, or its scope was left).
EmptySlot == [st |-> "empty", inner |-> 0, frame |-> 0, stored |-> <<>>]

\* The initialised binding of a cell whose box is at address a. `stored` is
\* the value the program last put in the cell through this binding (ghost).
OwnedSlot(a, f, v) == [st |-> "owned", inner |-> a, frame |-> f, stored |-> v]

\* A move leaves the source binding as if it were still initialised.
MovedFromStillOwned(s) == s

\* What a move leaves behind: Hidden is not Copy, so the source binding is
\* uninitialised and its drop flag cleared; it is never dropped.
MovedFrom(s) == [st |-> "moved", inner |-> 0, frame |-> s.frame, stored |-> <<>>]

Op(name, slot, other, val) == [op |-> name, slot |-> slot, other |-> other, val |-> val]

Owned == {s \in Slots : slots[s].st = "owned"}

Fresh == {a \in Addrs : alloc[a] = "unused" /\ \A b \in Addrs : b < a => alloc[b] # "unused"}

\* No cell exists.
\* No lock is in use: the state of a program that uses none of locks.rs.
NoLock ==
    /\ kind = "none"
    /\ data = 0
    /\ poisoned = FALSE
    /\ threads = <<>>
    /\ clean = 0

\* No time is read: the state of a program that uses none of epoch_time.rs.
NoClock ==
    /\ clock = [secs |-> 0, nanos |-> 0]
    /\ stamps = <<>>

NoCells ==
    /\ mem = [a \in Addrs |-> NoBox]
    /\ alloc = [a \in Addrs |-> "unused"]
    /\ drops = [a \in Addrs |-> 0]
    /\ slots = [s \in Slots |-> EmptySlot]
    /\ depth = 0
    /\ last = Op("init", 0, 0, <<>>)

Init ==
    /\ T \in Types
    /\ NoCells
    /\ NoLock
    /\ NoClock
    /\ arg = Idle
    /\ res = Idle

(***************************************************************************)
(* Hidden's operations.                                                    *)
(***************************************************************************)
\* A hide that boxes a zeroed value in place of the one it is given.
hideZeroed(inner) == BoxNew(Zeros(Len(inner)))

\* Hidden::hide(inner), hidden.rs:173-178: the value the new box holds.
hide(inner) == BoxNew(inner)

\* Hidden::reveal(&self), hidden.rs:181-183
reveal(s) == Deref(mem[slots[s].inner])

\* When the last operation cloned a cell and s is the clone or its original:
\* the other of the two (0 otherwise). `last` keeps it for the operation that
\* follows a clone directly.
Sibling(s) ==
    IF last.op = "clone" /\ s \in {last.slot, last.other}
    THEN (IF s = last.slot THEN last.other ELSE last.slot)
    ELSE 0

Touched(name, s) == Op(name, IF Sibling(s) # 0 THEN s ELSE 0, Sibling(s), <<>>)

\* The binding a new cell is bound to: the first free one (bindings are
\* interchangeable, so the choice of the free one does not matter).
FreeSlot == {s \in Slots : slots[s].st = "empty" /\ \A t \in Slots : t < s => slots[t].st # "empty"}

\* let s = Hidden::hide(v)
Hide(s, v) ==
    /\ s \in FreeSlot
    /\ \E a \in Fresh :
        /\ mem' = [mem EXCEPT ![a] = hide(v)]
        /\ alloc' = [alloc EXCEPT ![a] = "live"]
        /\ slots' = [slots EXCEPT ![s] = OwnedSlot(a, depth, v)]
    /\ last' = Op("hide", 0, 0, <<>>)
    /\ UNCHANGED <<T, drops, depth, arg, res, lockVars, timeVars>>

\* s.reveal()
Reveal(s) ==
    /\ s \in Owned
    /\ last' = Op("reveal", s, 0, reveal(s))
    /\ UNCHANGED <<T, mem, alloc, drops, slots, depth, arg, res, lockVars, timeVars>>

\* A write of w through s.reveal_mut(), hidden.rs:186-188
RevealMut(s, w) ==
    /\ s \in Owned
    /\ mem' = [mem EXCEPT ![slots[s].inner] = Write(@, w)]
    /\ slots' = [slots EXCEPT ![s].stored = w]
    /\ last' = Touched("reveal_mut", s)
    /\ UNCHANGED <<T, alloc, drops, depth, arg, res, lockVars, timeVars>>

\* A clone that shares the box of the original.
CloneShared(src, fresh) == src

\* derive(Clone), hidden.rs:155: Box<T>::clone allocates a new box (at
\* address fresh) and clones the value into it; the address the clone's
\* inner field holds.
CloneInner(src, fresh) == fresh

\* let d = s.clone()
Clone(s, d) ==
    /\ s \in Owned
    /\ d \in FreeSlot
    /\ \E a \in Fresh :
        /\ mem' = [mem EXCEPT ![a] = BoxNew(reveal(s))]
        /\ alloc' = [alloc EXCEPT ![a] = "live"]
        /\ slots' = [slots EXCEPT ![d] =
                        OwnedSlot(CloneInner(slots[s].inner, a), depth, slots[s].stored)]
    /\ last' = Op("clone", d, s, <<>>)
    /\ UNCHANGED <<T, drops, depth, arg, res, lockVars, timeVars>>

\* let d = s (or s passed by value to the function now running)
Move(s, d) ==
    /\ s \in Owned
    /\ d \in FreeSlot
    /\ slots' = [slots EXCEPT ![d] = OwnedSlot(slots[s].inner, depth, slots[s].stored),
                              ![s] = MovedFrom(slots[s])]
    /\ last' = Op("move", 0, 0, <<>>)
    /\ UNCHANGED <<T, mem, alloc, drops, depth, arg, res, lockVars, timeVars>>

\* The zero value of the type T of value v: 0, [0; N], or the empty Vec.
ZeroValue(ty, v) == IF ty = "vec" THEN <<>> ELSE Zeros(Len(v))

\* s.zeroize(), called by the program on a live cell
Zeroize(s) ==
    /\ s \in Owned
    /\ mem' = [mem EXCEPT ![slots[s].inner] = HiddenZeroize(T, @)]
    /\ slots' = [slots EXCEPT ![s].stored = ZeroValue(T, @)]
    /\ last' = Touched("zeroize", s)
    /\ UNCHANGED <<T, alloc, drops, depth, arg, res, lockVars, timeVars>>

\* A comparison by the address of the box.
EqByAddress(a, b) == slots[a].inner = slots[b].inner

\* derive(PartialEq), hidden.rs:155: the fields are compared in turn, the
\* boxes by the values they hold; PhantomData<L> always compares equal.
HiddenEq(a, b) == reveal(a) = reveal(b) /\ TRUE

\* a == b
Eq(a, b) ==
    /\ a \in Owned
    /\ b \in Owned
    /\ last' = Op("eq", a, b, HiddenEq(a, b))
    /\ UNCHANGED <<T, mem, alloc, drops, slots, depth, arg, res, lockVars, timeVars>>

(***************************************************************************)
(* The end of a cell. The compiler runs Drop::drop on every initialised    *)
(* binding that goes out of scope, once, and then releases its fields (the *)
(* box). DropAll(D) is that for the set D of bindings.                     *)
(***************************************************************************)
Holders(D, a) == {s \in D : slots[s].st = "owned" /\ slots[s].inner = a}

DropAll(D) ==
    /\ mem' = [a \in Addrs |-> IF Holders(D, a) # {} THEN HiddenDrop(T, mem[a]) ELSE mem[a]]
    /\ alloc' = [a \in Addrs |-> IF Holders(D, a) # {} THEN "freed" ELSE alloc[a]]
    /\ drops' = [a \in Addrs |-> drops[a] + Cardinality(Holders(D, a))]

\* drop(s): the cell is moved into drop() and ends there
Drop(s) ==
    /\ s \in Owned
    /\ DropAll({s})
    /\ slots' = [slots EXCEPT ![s] = MovedFrom(slots[s])]
    /\ last' = Touched("drop", s)
    /\ UNCHANGED <<T, depth, arg, res, lockVars, timeVars>>

\* A function is called: a new frame.
Call ==
    /\ depth < MaxDepth
    /\ depth' = depth + 1
    /\ last' = Op("call", 0, 0, <<>>)
    /\ UNCHANGED <<T, mem, alloc, drops, slots, arg, res, lockVars, timeVars>>

InFrame(f) == {s \in Slots : slots[s].st # "empty" /\ slots[s].frame >= f}

\* The running function returns, at its end or early (`return`, `?`): the
\* bindings of its frame go out of scope. how is "end" or "early".
Return(how) ==
    /\ DropAll(InFrame(depth))
    /\ slots' = [s \in Slots |-> IF s \in InFrame(depth) THEN EmptySlot ELSE slots[s]]
    /\ depth' = IF depth > 0 THEN depth - 1 ELSE 0
    /\ last' = Op("return", 0, 0, how)
    /\ UNCHANGED <<T, arg, res, lockVars, timeVars>>

\* A panic unwinds the whole stack: every frame's bindings go out of scope.
Panic ==
    /\ DropAll(InFrame(0))
    /\ slots' = [s \in Slots |-> EmptySlot]
    /\ depth' = 0
    /\ last' = Op("panic", 0, 0, <<>>)
    /\ UNCHANGED <<T, arg, res, lockVars, timeVars>>

Next ==
    \/ \E s \in Slots, v \in ValuesOf(T) : Hide(s, v)
    \/ \E s \in Slots : Reveal(s)
    \/ \E s \in Slots, w \in ValuesOf(T) : RevealMut(s, w)
    \/ \E s, d \in Slots : Clone(s, d)
    \/ \E s, d \in Slots : Move(s, d)
    \/ \E s \in Slots : Zeroize(s)
    \/ \E a, b \in Slots : a <= b /\ Eq(a, b)
    \/ \E s \in Slots : Drop(s)
    \/ Call
    \/ \E how \in {"end", "early"} : Return(how)
    \/ Panic

Spec == Init /\ [][Next]_vars


(***************************************************************************)
(* The claims about the life cycle, checked under Spec.                    *)
(***************************************************************************)
Live == {a \in Addrs : alloc[a] = "live"}

Freed == {a \in Addrs : alloc[a] = "freed"}

\* C1: every Hidden that ceased to exist (explicit drop, scope exit at the
\* end of a function or at an early return, unwinding from a panic) had its
\* value zeroized before its storage was released: the storage of every
\* released box holds only zero bytes, so none holds the secret it held.
C1_ReleasedIsZeroized ==
    \A a \in Freed : mem[a].bytes = Zeros(Len(mem[a].bytes))

\* C1 witness: a panic unwound the stack and released a cell of a type with
\* storage to wipe.
C1_Witness ==
    /\ last.op = "panic"
    /\ \E a \in Freed : Len(mem[a].bytes) > 0 /\ drops[a] = 1

\* C2: over any sequence of hide, clone, move and drop the erasure on
\* destruction ran exactly once on every released instance, and on no
\* instance still alive: a moved-from binding is not wiped again, and no
\* instance is released without its wipe.
C2_WipedExactlyOnce ==
    \A a \in Addrs :
        /\ alloc[a] = "freed" => drops[a] = 1
        /\ alloc[a] # "freed" => drops[a] = 0

\* C2 witness: the only cell ever made was moved to a second binding and
\* dropped there, while the moved-from binding is still in scope.
C2_Witness ==
    /\ last.op = "drop"
    /\ Cardinality(Freed) = 1
    /\ Live = {}
    /\ Cardinality({s \in Slots : slots[s].st = "moved"}) = 2

\* C5: reveal() returns the value most recently stored in the cell: the one
\* given to hide, or the last one written through reveal_mut().
C5_RevealReturnsLastStored ==
    last.op = "reveal" => last.val = slots[last.slot].stored

\* C5 witness: a cell of [u8; N] made from [1; N] was overwritten with
\* [42; N] and reveal() returned [42; N].
C5_Witness ==
    /\ T = "array"
    /\ last.op = "reveal"
    /\ last.val = [i \in 1..ArrayLen |-> 42]
    /\ slots[last.slot].stored = [i \in 1..ArrayLen |-> 42]
    /\ Cardinality(Live) = 1
    /\ Freed = {}

\* What s.reveal() returns after the step.
RevealAfter(s) == Deref(mem'[slots'[s].inner])

\* The cells whose revealed value a step changes.
ChangedBy ==
    {b \in Slots : /\ slots[b].st = "owned"
                   /\ slots'[b].st = "owned"
                   /\ slots'[b].inner = slots[b].inner
                   /\ RevealAfter(b) # reveal(b)}

\* C6: a clone is an independent cell. Right after clone the two reveal
\* equal values; a write through reveal_mut(), a zeroize or a drop of one
\* cell changes the value revealed by no other cell, its clone included.
C6_CloneIsIndependent ==
    [][/\ last'.op = "clone" => RevealAfter(last'.slot) = RevealAfter(last'.other)
       /\ Cardinality(ChangedBy) <= 1
       /\ last'.op \notin {"reveal_mut", "zeroize"} => ChangedBy = {}
       /\ (last'.op \in {"reveal_mut", "zeroize", "drop"} /\ last'.other # 0)
            => /\ slots'[last'.other].st = "owned"
               /\ RevealAfter(last'.other) = reveal(last'.other)]_vars

\* C6 witness: directly after a clone one of the two cells was written
\* through reveal_mut(), and the two now reveal different values.
C6_Witness ==
    /\ last.op = "reveal_mut"
    /\ last.other # 0
    /\ slots[last.other].st = "owned"
    /\ reveal(last.other) # reveal(last.slot)

\* C7: equality of two cells (same T, same label) is equality of the values
\* they wrap: a == b exactly when the values stored in a and b are equal.
C7_EqDelegatesToValue ==
    last.op = "eq" => (last.val <=> slots[last.slot].stored = slots[last.other].stored)

\* C7 witness: two cells hiding different values compared unequal.
C7_Witness ==
    /\ last.op = "eq"
    /\ last.slot # last.other
    /\ slots[last.slot].stored # slots[last.other].stored
    /\ last.val = FALSE


(***************************************************************************)
(* Text. A Rust string is modelled by its bytes (UTF-8), a sequence of     *)
(* 0..255.                                                                 *)
(***************************************************************************)
RECURSIVE Decimal(_)
\* The decimal digits of n >= 0, as ASCII.
Decimal(n) == IF n < 10 THEN <<48 + n>> ELSE Decimal(n \div 10) \o <<48 + (n % 10)>>

\* Whether the bytes n occur in the bytes h, contiguously.
IsSubstring(n, h) ==
    \E i \in 0..(Len(h) - Len(n)) : SubSeq(h, i + 1, i + Len(n)) = n

RECURSIVE Concat(_)
Concat(parts) == IF parts = <<>> THEN <<>> ELSE Head(parts) \o Concat(Tail(parts))

(***************************************************************************)
(* Debug and Display of Hidden<T, L>, hidden.rs:191-211.                   *)
(***************************************************************************)
\* The labels L: the default one and one made by hidden_label!.
Labels == {"DefaultHiddenLabel", "TestLabel"}

\* core::any::type_name::<T>() of the wrapped types.
TypeNameT(ty) ==
    CASE ty = "u8" -> <<117, 56>> \* "u8"
      [] ty = "array" -> <<91, 117, 56, 59, 32>> \o Decimal(ArrayLen) \o <<93>> \* "[u8; N]"
      [] ty = "vec" -> <<97, 108, 108, 111, 99, 58, 58, 118, 101, 99, 58, 58, 86, 101, 99, 60, 117, 56, 62>> \* "alloc::vec::Vec<u8>"

\* core::any::type_name::<L>() of the labels.
TypeNameL(label) ==
    CASE label = "DefaultHiddenLabel" ->
            \* "tari_utilities::hidden::DefaultHiddenLabel"
            <<116, 97, 114, 105, 95, 117, 116, 105, 108, 105, 116, 105, 101, 115, 58, 58, 104, 105, 100, 100, 101, 110, 58, 58, 68, 101, 102, 97, 117, 108, 116, 72, 105, 100, 100, 101, 110, 76, 97, 98, 101, 108>>
      [] label = "TestLabel" ->
            \* "tari_utilities::hidden::tests::serialize::TestLabel"
            <<116, 97, 114, 105, 95, 117, 116, 105, 108, 105, 116, 105, 101, 115, 58, 58, 104, 105, 100, 100, 101, 110, 58, 58, 116, 101, 115, 116, 115, 58, 58, 115, 101, 114, 105, 97, 108, 105, 122, 101, 58, 58, 84, 101, 115, 116, 76, 97, 98, 101, 108>>

\* "Hidden<"
StrHidden == <<72, 105, 100, 100, 101, 110, 60>>

\* ", "
StrSep == <<44, 32>>

\* write!(f, "Hidden<{}, {}>", type_name::<T>(), type_name::<L>())
WriteHidden(ty, label) ==
    Concat(<< StrHidden, TypeNameT(ty), StrSep, TypeNameL(label), <<62>> >>)

\* A Hidden<T, L> as a value: Hidden { inner: Box<T>, _type: PhantomData<L> }
HiddenOf(ty, label, v) == [ty |-> ty, label |-> label, inner |-> hide(v)]

\* A Debug that also prints the wrapped value, as derive(Debug) would.
DebugFmtWithValue(h) ==
    WriteHidden(h.ty, h.label) \o <<40>> \o Deref(h.inner) \o <<41>>

\* impl fmt::Debug for Hidden, hidden.rs:192-200
DebugFmt(h) == WriteHidden(h.ty, h.label)

\* A Display that also prints the bytes of the wrapped value in decimal.
DisplayFmtWithValue(h) ==
    WriteHidden(h.ty, h.label)
        \o Concat([i \in 1..Len(Deref(h.inner)) |-> <<32>> \o Decimal(Deref(h.inner)[i])])

\* impl fmt::Display for Hidden, hidden.rs:203-211
DisplayFmt(h) == WriteHidden(h.ty, h.label)

\* The byte values of the cells that are formatted: 72 and 105 are "H" and
\* "i", which the output holds whatever the value is; 0 and 255 occur in no
\* type name.
FmtBytes == {0, 72, 105, 255}

FmtValuesOf(ty) ==
    CASE ty = "u8" -> SeqsOf(FmtBytes, 1)
      [] ty = "array" -> SeqsOf(FmtBytes, ArrayLen)
      [] ty = "vec" -> SeqsUpTo(FmtBytes, MaxLen)

\* Two cells of the same T and L, hiding v1 and v2.
FmtArgs ==
    UNION {[op : {"fmt"}, ty : {ty}, label : Labels,
            v1 : FmtValuesOf(ty), v2 : FmtValuesOf(ty)] : ty \in Types}

\* The cells of the specifications of pure functions: none.
LifeIdle == T = "u8" /\ NoCells /\ NoLock /\ NoClock

FmtInit ==
    /\ LifeIdle
    /\ arg \in FmtArgs
    /\ res = Idle

\* format!("{:?}", h1) and format!("{:?}", h2)
FmtDebug ==
    /\ res' = [op |-> "Debug",
               out1 |-> DebugFmt(HiddenOf(arg.ty, arg.label, arg.v1)),
               out2 |-> DebugFmt(HiddenOf(arg.ty, arg.label, arg.v2))]
    /\ UNCHANGED <<lifeVars, lockVars, timeVars, arg>>

\* format!("{}", h1) and format!("{}", h2)
FmtDisplay ==
    /\ res' = [op |-> "Display",
               out1 |-> DisplayFmt(HiddenOf(arg.ty, arg.label, arg.v1)),
               out2 |-> DisplayFmt(HiddenOf(arg.ty, arg.label, arg.v2))]
    /\ UNCHANGED <<lifeVars, lockVars, timeVars, arg>>

FmtNext == FmtDebug \/ FmtDisplay

SpecFmt == FmtInit /\ [][FmtNext]_vars

\* C3: Debug and Display of a Hidden<T, L> produce exactly the placeholder
\* "Hidden<{type name of T}, {type name of L}>"; two cells of the same T and L
\* format identically whatever values they hide.
C3_FormatIsPlaceholder ==
    res.op \in {"Debug", "Display"} =>
        /\ res.out1 = res.out2
        /\ res.out1 = Concat(<<StrHidden, TypeNameT(arg.ty), StrSep,
                               TypeNameL(arg.label), <<62>> >>)

\* C3 witness: two Hidden<u8> with the default label, hiding different
\* values, both displayed as the text tests::masking expects,
\* "Hidden<u8, tari_utilities::hidden::DefaultHiddenLabel>".
C3_Witness ==
    /\ res.op = "Display"
    /\ arg.ty = "u8"
    /\ arg.label = "DefaultHiddenLabel"
    /\ arg.v1 # arg.v2
    /\ res.out1 = <<72, 105, 100, 100, 101, 110, 60, 117, 56, 44, 32, 116, 97, 114, 105, 95, 117, 116, 105, 108, 105, 116, 105, 101, 115, 58, 58, 104, 105, 100, 100, 101, 110, 58, 58, 68, 101, 102, 97, 117, 108, 116, 72, 105, 100, 100, 101, 110, 76, 97, 98, 101, 108, 62>>
    /\ res.out2 = res.out1

\* C4 as claimed: the formatted text never contains the bytes of the hidden
\* value as a substring.
C4_NeverContainsValue ==
    res.op \in {"Debug", "Display"} =>
        /\ ~IsSubstring(arg.v1, res.out1)
        /\ ~IsSubstring(arg.v2, res.out2)

\* C4, amended: the formatted text contains the bytes of the hidden value
\* only when they are empty or occur in the placeholder itself, which is
\* printed whatever the value.
C4_ContainsValueOnlyInPlaceholder ==
    res.op \in {"Debug", "Display"} =>
        \A v \in {arg.v1, arg.v2} :
            (v # <<>> /\ ~IsSubstring(v, WriteHidden(arg.ty, arg.label)))
                => (~IsSubstring(v, res.out1) /\ ~IsSubstring(v, res.out2))

\* C4 witness: a cell hiding a byte that no type name holds was formatted
\* for Debug.
C4_Witness ==
    /\ res.op = "Debug"
    /\ arg.v1 # <<>>
    /\ ~IsSubstring(arg.v1, WriteHidden(arg.ty, arg.label))
    /\ ~IsSubstring(arg.v1, res.out1)


(***************************************************************************)
(* Serialization, with the data format of the tests: serde_json. A JSON    *)
(* text is modelled by its bytes.                                          *)
(***************************************************************************)
\* Hidden::reveal(&self) of a cell held as a value.
RevealOf(h) == Deref(h.inner)

RECURSIVE JoinDecimal(_)
\* The elements of v in decimal, separated by ",".
JoinDecimal(v) ==
    IF v = <<>> THEN <<>>
    ELSE IF Len(v) = 1 THEN Decimal(v[1])
    ELSE Decimal(v[1]) \o <<44>> \o JoinDecimal(Tail(v))

\* serde_json::to_string of a u8: its decimal digits.
JsonU8(n) == Decimal(n)

\* serde_json::to_string of a sequence of u8: "[e1,e2,...]".
JsonSeq(v) == <<91>> \o JoinDecimal(v) \o <<93>>

\* T::serialize: a u8 as a number; [u8; N] (a tuple) and Vec<u8> (a
\* sequence) as an array of numbers.
SerializeT(ty, v) == IF ty = "u8" THEN JsonU8(v[1]) ELSE JsonSeq(v)

\* A Serialize derived without serde(transparent) and serde(skip): the cell
\* as a struct of its two fields, {"inner":...,"_type":null}.
HiddenSerializeAsStruct(h) ==
    <<123, 34, 105, 110, 110, 101, 114, 34, 58>> \o SerializeT(h.ty, RevealOf(h)) \o <<44, 34, 95, 116, 121, 112, 101, 34, 58, 110, 117, 108, 108, 125>>

\* derive(Serialize) with serde(transparent), hidden.rs:155-165: the cell
\* serializes as its one field that is not skipped, inner.
HiddenSerialize(h) == SerializeT(h.ty, RevealOf(h))

\* A Serialize derived for SafePassword without serde(transparent):
\* {"passphrase":[...]}.
SafePasswordSerializeAsStruct(p) ==
    <<123, 34, 112, 97, 115, 115, 112, 104, 114, 97, 115, 101, 34, 58>> \o JsonSeq(RevealOf(p.passphrase)) \o <<125>>

\* impl Serialize for SafePassword, password.rs:99-108: serialize_seq, then
\* each byte of the passphrase as an element.
SafePasswordSerialize(p) == JsonSeq(RevealOf(p.passphrase))

IsDigit(c) == c \in 48..57

RECURSIVE DigitsValue(_)
DigitsValue(t) ==
    IF t = <<>> THEN 0 ELSE 10 * DigitsValue(SubSeq(t, 1, Len(t) - 1)) + (t[Len(t)] - 48)

Err == [ok |-> FALSE]

Ok(v) == [ok |-> TRUE, val |-> v]

\* serde_json::from_str::<u8>: a JSON number without sign, fraction or
\* leading zero, not above 255.
ParseU8(t) ==
    IF /\ Len(t) \in 1..3
       /\ \A i \in 1..Len(t) : IsDigit(t[i])
       /\ (Len(t) > 1 => t[1] # 48)
       /\ DigitsValue(t) <= 255
    THEN Ok(DigitsValue(t))
    ELSE Err

RECURSIVE SplitAtCommas(_)
\* The pieces of t between its commas.
SplitAtCommas(t) ==
    IF \E i \in 1..Len(t) : t[i] = 44
    THEN LET i == CHOOSE k \in 1..Len(t) : t[k] = 44 /\ \A j \in 1..(k - 1) : t[j] # 44
         IN <<SubSeq(t, 1, i - 1)>> \o SplitAtCommas(SubSeq(t, i + 1, Len(t)))
    ELSE <<t>>

\* serde_json::from_str of a sequence of u8: "[" elements "]".
ParseSeq(t) ==
    IF Len(t) >= 2 /\ t[1] = 91 /\ t[Len(t)] = 93
    THEN LET body == SubSeq(t, 2, Len(t) - 1)
             parts == SplitAtCommas(body)
         IN IF body = <<>> THEN Ok(<<>>)
            ELSE IF \A i \in 1..Len(parts) : ParseU8(parts[i]).ok
                 THEN Ok([i \in 1..Len(parts) |-> ParseU8(parts[i]).val])
                 ELSE Err
    ELSE Err

\* T::deserialize: [u8; N] takes exactly N elements.
DeserializeT(ty, t) ==
    CASE ty = "u8" -> (IF ParseU8(t).ok THEN Ok(<<ParseU8(t).val>>) ELSE Err)
      [] ty = "array" -> (IF ParseSeq(t).ok /\ Len(ParseSeq(t).val) = ArrayLen
                          THEN ParseSeq(t) ELSE Err)
      [] ty = "vec" -> ParseSeq(t)

\* derive(Deserialize) with serde(transparent), hidden.rs:155-165: the data
\* deserializes as inner; the skipped _type is PhantomData of the label the
\* caller asks for.
HiddenDeserialize(ty, label, t) ==
    IF DeserializeT(ty, t).ok
    THEN Ok([ty |-> ty, label |-> label, inner |-> BoxNew(DeserializeT(ty, t).val)])
    ELSE Err

\* SafePassword { passphrase: Hidden<Vec<u8>> }, password.rs:54-56
SafePasswordOf(v) == [passphrase |-> HiddenOf("vec", "DefaultHiddenLabel", v)]

\* derive(Deserialize) with serde(transparent), password.rs:52-53: the data
\* deserializes as the one field, passphrase.
SafePasswordDeserialize(t) ==
    IF HiddenDeserialize("vec", "DefaultHiddenLabel", t).ok
    THEN Ok([passphrase |-> HiddenDeserialize("vec", "DefaultHiddenLabel", t).val])
    ELSE Err

\* The byte values of the cells that are serialized: of one, two and three
\* decimal digits.
SerdeBytes == {0, 7, 42, 255}

SerdeValuesOf(ty) ==
    CASE ty = "u8" -> SeqsOf(SerdeBytes, 1)
      [] ty = "array" -> SeqsOf(SerdeBytes, ArrayLen)
      [] ty = "vec" -> SeqsUpTo(SerdeBytes, MaxLen)

\* "password"
PasswordBytes == <<112, 97, 115, 115, 119, 111, 114, 100>>

\* A Hidden<T, label> hiding v, to be serialized and then deserialized as a
\* Hidden<T, into>; or a SafePassword of the bytes v.
SerdeArgs ==
    UNION {[op : {"serde"}, kind : {"Hidden"}, ty : {ty}, label : Labels,
            into : Labels, v : SerdeValuesOf(ty)] : ty \in Types}
    \cup [op : {"serde"}, kind : {"SafePassword"}, ty : {"vec"},
          label : {"DefaultHiddenLabel"}, into : {"DefaultHiddenLabel"},
          v : SerdeValuesOf("vec") \cup {PasswordBytes}]

SerdeInit ==
    /\ LifeIdle
    /\ arg \in SerdeArgs
    /\ res = Idle

\* let ser = serde_json::to_string(&hidden).unwrap()
Serialize ==
    /\ res = Idle
    /\ res' = [op |-> "serialize",
               text |-> IF arg.kind = "Hidden"
                        THEN HiddenSerialize(HiddenOf(arg.ty, arg.label, arg.v))
                        ELSE SafePasswordSerialize(SafePasswordOf(arg.v))]
    /\ UNCHANGED <<lifeVars, lockVars, timeVars, arg>>

\* let deser = serde_json::from_str(&ser)
Deserialize ==
    /\ res.op = "serialize"
    /\ res' = [op |-> "deserialize",
               text |-> res.text,
               out |-> IF arg.kind = "Hidden"
                       THEN HiddenDeserialize(arg.ty, arg.into, res.text)
                       ELSE SafePasswordDeserialize(res.text)]
    /\ UNCHANGED <<lifeVars, lockVars, timeVars, arg>>

SerdeNext == Serialize \/ Deserialize

SpecSerde == SerdeInit /\ [][SerdeNext]_vars

\* What the deserialized cell reveals.
Revealed(out) ==
    IF arg.kind = "Hidden" THEN RevealOf(out.val) ELSE RevealOf(out.val.passphrase)

\* C8: serialization round-trips. Deserializing the serialized form of a
\* Hidden<T> or of a SafePassword succeeds and gives a cell that reveals the
\* value the original reveals.
C8_SerdeRoundTrip ==
    res.op = "deserialize" =>
        /\ res.out.ok
        /\ Revealed(res.out) =
              (IF arg.kind = "Hidden"
               THEN RevealOf(HiddenOf(arg.ty, arg.label, arg.v))
               ELSE RevealOf(SafePasswordOf(arg.v).passphrase))

\* C8 witness: the SafePassword of "password" was serialized and
\* deserialized (tests::serialization), and reveals "password".
C8_Witness ==
    /\ res.op = "deserialize"
    /\ arg.kind = "SafePassword"
    /\ arg.v = PasswordBytes
    /\ res.out.ok
    /\ RevealOf(res.out.val.passphrase) = PasswordBytes

\* C9: the serialization of a Hidden<T, L> is transparent. Its serialized
\* form is that of the raw value T, the same under every label L, and it
\* deserializes into a Hidden of any label L', which reveals the same value.
C9_SerdeTransparent ==
    (arg.kind = "Hidden" /\ res.op \in {"serialize", "deserialize"}) =>
        /\ res.text = SerializeT(arg.ty, arg.v)
        /\ \A l \in Labels : HiddenSerialize(HiddenOf(arg.ty, l, arg.v)) = res.text
        /\ res.op = "deserialize" =>
              /\ res.out.ok
              /\ res.out.val.label = arg.into
              /\ RevealOf(res.out.val) = arg.v

\* C9 witness: the data of a Hidden<u8> with the default label, "42", was
\* deserialized into a Hidden<u8, TestLabel> (tests::serialize).
C9_Witness ==
    /\ res.op = "deserialize"
    /\ arg.kind = "Hidden"
    /\ arg.ty = "u8"
    /\ arg.v = <<42>>
    /\ arg.label = "DefaultHiddenLabel"
    /\ arg.into = "TestLabel"
    /\ res.text = <<52, 50>>
    /\ res.out.ok
    /\ res.out.val.label = "TestLabel"
    /\ RevealOf(res.out.val) = <<42>>


(***************************************************************************)
(* SafePassword, password.rs. A text (&str, String) is modelled by its     *)
(* characters, a sequence of Unicode scalar values; its bytes are its      *)
(* UTF-8 encoding.                                                         *)
(***************************************************************************)
\* Longest text a SafePassword is made from (but for "password").
MaxTextLen == 2

\* The characters of the texts: "a", "p", "é", "€" and U+1F600, of one to
\* four bytes in UTF-8.
SampleChars == {97, 112, 233, 8364, 128512}

\* "password"
PasswordText == <<112, 97, 115, 115, 119, 111, 114, 100>>

Texts == SeqsUpTo(SampleChars, MaxTextLen) \cup {PasswordText}

\* The bytes of one char in a str or String: its UTF-8 encoding.
Utf8Char(c) ==
    IF c < 128 THEN <<c>>
    ELSE IF c < 2048 THEN <<192 + (c \div 64), 128 + (c % 64)>>
    ELSE IF c < 65536
         THEN <<224 + (c \div 4096), 128 + ((c \div 64) % 64), 128 + (c % 64)>>
         ELSE <<240 + (c \div 262144), 128 + ((c \div 4096) % 64),
                128 + ((c \div 64) % 64), 128 + (c % 64)>>

\* String::from(s: &str), and <&str as Into<String>>::into: the same text.
StringFrom(s) == s

\* String::into_bytes: the bytes of the text.
IntoBytes(string) == Concat([i \in 1..Len(string) |-> Utf8Char(string[i])])

\* SafePassword::reveal, password.rs:60-62
SafePasswordReveal(p) == RevealOf(p.passphrase)

\* A from_str that keeps one byte per char (`c as u8`), not its UTF-8.
from_strCharAsByte(s) ==
    Ok([passphrase |-> HiddenOf("vec", "DefaultHiddenLabel",
                                [i \in 1..Len(s) |-> s[i] % 256])])

\* A from_str that validates: it refuses the empty passphrase.
from_strRejectEmpty(s) ==
    IF s = <<>> THEN Err
    ELSE Ok([passphrase |-> HiddenOf("vec", "DefaultHiddenLabel", IntoBytes(StringFrom(s)))])

\* impl FromStr for SafePassword, password.rs:83-87
from_str(s) ==
    Ok([passphrase |-> HiddenOf("vec", "DefaultHiddenLabel", IntoBytes(StringFrom(s)))])

\* impl<S: Into<String>> From<S> for SafePassword, password.rs:91-95;
\* string is s.into().
from(string) ==
    [passphrase |-> HiddenOf("vec", "DefaultHiddenLabel", IntoBytes(string))]

PasswordInit ==
    /\ LifeIdle
    /\ arg \in [op : {"password"}, s : Texts]
    /\ res = Idle

\* SafePassword::from_str(s)
FromStr ==
    /\ res' = [op |-> "from_str", out |-> from_str(arg.s)]
    /\ UNCHANGED <<lifeVars, lockVars, timeVars, arg>>

\* SafePassword::from(s) for s: &str
FromStrRef ==
    /\ res' = [op |-> "from(&str)", out |-> Ok(from(StringFrom(arg.s)))]
    /\ UNCHANGED <<lifeVars, lockVars, timeVars, arg>>

\* SafePassword::from(s.to_string()): a String is its own Into<String>
FromString ==
    /\ res' = [op |-> "from(String)", out |-> Ok(from(arg.s))]
    /\ UNCHANGED <<lifeVars, lockVars, timeVars, arg>>

PasswordNext == FromStr \/ FromStrRef \/ FromString

SpecPassword == PasswordInit /\ [][PasswordNext]_vars

\* The UTF-8 encoding of the sample characters, as the standard gives it.
KnownUtf8(c) ==
    CASE c < 128 -> <<c>>
      [] c = 233 -> <<195, 169>>
      [] c = 8364 -> <<226, 130, 172>>
      [] c = 128512 -> <<240, 159, 152, 128>>

\* C10: SafePassword::from(&str), SafePassword::from(String) and
\* SafePassword::from_str reveal the same bytes for a text s: the UTF-8
\* encoding of s.
C10_FromTextIsUtf8 ==
    /\ res.op \in {"from_str", "from(&str)", "from(String)"} =>
          /\ res.out.ok
          /\ SafePasswordReveal(res.out.val) = Concat([i \in 1..Len(arg.s) |-> KnownUtf8(arg.s[i])])
    /\ arg.op = "password" =>
          /\ SafePasswordReveal(from_str(arg.s).val) = SafePasswordReveal(from(StringFrom(arg.s)))
          /\ SafePasswordReveal(from(StringFrom(arg.s))) = SafePasswordReveal(from(arg.s))

\* C10 witness: from_str("password") reveals
\* [112, 97, 115, 115, 119, 111, 114, 100] (tests::from_strings).
C10_Witness ==
    /\ res.op = "from_str"
    /\ arg.s = PasswordText
    /\ res.out.ok
    /\ SafePasswordReveal(res.out.val) = <<112, 97, 115, 115, 119, 111, 114, 100>>

\* C11: SafePassword::from_str succeeds for every input string, the empty
\* string included: the result is Ok, never Err(PasswordError), and holds
\* the bytes of the input whatever they are.
C11_FromStrNeverFails ==
    /\ res.op = "from_str" =>
          /\ res.out.ok
          /\ SafePasswordReveal(res.out.val) = IntoBytes(arg.s)
    /\ arg.op = "password" => from_str(arg.s).ok

\* C11 witness: from_str("") is Ok and reveals no bytes.
C11_Witness ==
    /\ res.op = "from_str"
    /\ arg.s = <<>>
    /\ res.out.ok
    /\ SafePasswordReveal(res.out.val) = <<>>

(***************************************************************************)
(* The type Hidden<T, L>, hidden.rs:55-67 and 155-165: what the compiler   *)
(* accepts between two cells, by their types.                              *)
(***************************************************************************)

\* The labels a declaration can name: the one of this crate and two made
\* with hidden_label!, each a struct of its own (hidden.rs:56-64, 67).
DeclaredLabels == {"DefaultHiddenLabel", "KeyForCipherALabel", "KeyForCipherBLabel"}

\* The second type argument as written: a label, or none (`Hidden<T>`).
LabelArgs == DeclaredLabels \cup {"omitted"}

\* A Hidden type where the label is no part of the type.
HiddenTypeUnlabelled(ty, l) == [ty |-> ty, label |-> "DefaultHiddenLabel"]

\* The type `Hidden<ty, l>` names: `L = DefaultHiddenLabel` stands in for
\* an omitted label (hidden.rs:157), and PhantomData<L> makes L a part of
\* the type (hidden.rs:164).
HiddenType(ty, l) ==
    [ty |-> ty, label |-> IF l = "omitted" THEN "DefaultHiddenLabel" ELSE l]

\* `a == b`: derive(PartialEq) gives `impl PartialEq for Hidden<T, L>`,
\* whose right-hand side is Self (hidden.rs:155).
EqCompiles(ta, tb) == ta = tb

\* `a = b`, and `f(b)` for `fn f(_: A)`: a value has the type expected;
\* Hidden has no conversion between labels.
AssignCompiles(ta, tb) == ta = tb

Compiled(ok) == IF ok THEN "compiles" ELSE "mismatched types"

TypeInit ==
    /\ LifeIdle
    /\ arg \in [op : {"types"}, ta : Types, la : LabelArgs, tb : Types, lb : LabelArgs]
    /\ res = Idle

\* assert_eq!(a, b)
TypeEq ==
    /\ res' = [op |-> "a == b",
               out |-> Compiled(EqCompiles(HiddenType(arg.ta, arg.la), HiddenType(arg.tb, arg.lb)))]
    /\ UNCHANGED <<lifeVars, lockVars, timeVars, arg>>

\* a = b
TypeAssign ==
    /\ res' = [op |-> "a = b",
               out |-> Compiled(AssignCompiles(HiddenType(arg.ta, arg.la), HiddenType(arg.tb, arg.lb)))]
    /\ UNCHANGED <<lifeVars, lockVars, timeVars, arg>>

\* f(b) for fn f(_: A)
TypePass ==
    /\ res' = [op |-> "f(b)",
               out |-> Compiled(AssignCompiles(HiddenType(arg.ta, arg.la), HiddenType(arg.tb, arg.lb)))]
    /\ UNCHANGED <<lifeVars, lockVars, timeVars, arg>>

TypeNext == TypeEq \/ TypeAssign \/ TypePass

SpecTypes == TypeInit /\ [][TypeNext]_vars

\* C12: over the same T, two cells declared with different labels are
\* rejected by the compiler when compared, assigned or passed for one
\* another, and two cells that both use the default label are accepted.
C12_LabelsSeparateTypes ==
    (res.op \in {"a == b", "a = b", "f(b)"} /\ arg.ta = arg.tb) =>
        /\ (arg.la \in DeclaredLabels /\ arg.lb \in DeclaredLabels /\ arg.la # arg.lb)
              => res.out = "mismatched types"
        /\ (arg.la = "omitted" /\ arg.lb = "omitted") => res.out = "compiles"

\* C12 witness: the compile_fail example of hidden.rs:115-135, the
\* comparison of a KeyForCipherA with a KeyForCipherB, both over [u8; 32].
C12_Witness ==
    /\ res.op = "a == b"
    /\ arg.ta = "array" /\ arg.tb = "array"
    /\ arg.la = "KeyForCipherALabel" /\ arg.lb = "KeyForCipherBLabel"
    /\ res.out = "mismatched types"

(***************************************************************************)
(* The macros of locks.rs on a std::sync::Mutex or RwLock shared by        *)
(* threads: recover_lock! (25-37), acquire_lock! (39-50),                  *)
(* acquire_write_lock! (52-58) and acquire_read_lock! (60-66).             *)
(***************************************************************************)

MaxThreads == 2

MaxData == 1

LockThreads == 1..MaxThreads

\* The values of the protected data.
DataValues == 0..MaxData

\* The methods that return a LockResult: Mutex::lock, RwLock::read and
\* RwLock::write.
Methods(k) == IF k = "Mutex" THEN {"lock"} ELSE {"read", "write"}

\* The macro calls and the method $m each expands to: acquire_lock!($e) is
\* acquire_lock!($e, lock) (locks.rs:47-49), acquire_write_lock!($e) is
\* acquire_lock!($e, write) (55-57), acquire_read_lock!($e) is
\* acquire_lock!($e, read) (63-65).
MacroCalls ==
    {[macro |-> "acquire_lock!(e)", m |-> "lock"],
     [macro |-> "acquire_lock!(e, m)", m |-> "lock"],
     [macro |-> "acquire_lock!(e, m)", m |-> "read"],
     [macro |-> "acquire_lock!(e, m)", m |-> "write"],
     [macro |-> "acquire_write_lock!(e)", m |-> "write"],
     [macro |-> "acquire_read_lock!(e)", m |-> "read"]}

IdleThread == [pc |-> "idle", held |-> "none", macro |-> "none", got |-> <<>>, warned |-> FALSE, seen |-> 0]

\* A MutexGuard, RwLockReadGuard or RwLockWriteGuard.
Guard(m) == [guard |-> m]

IsGuard(x) == DOMAIN x = {"guard"}

\* Err(PoisonError { guard }): the error holds the guard.
PoisonError(g) == [ok |-> FALSE, val |-> g]

\* PoisonError::into_inner: the guard the error holds.
into_inner(e) == e.val

\* Whether $e.$m() can return now: lock and write exclude every other
\* guard, read excludes a write guard.
Available(m) ==
    IF m = "read"
    THEN \A t \in LockThreads : threads[t].held # "write"
    ELSE \A t \in LockThreads : threads[t].held = "none"

\* $e.$m(), once the lock is taken: Err if the lock is poisoned.
LockResult(m) == IF poisoned THEN PoisonError(Guard(m)) ELSE Ok(Guard(m))

\* A recover_lock! that hands the error on instead of recovering.
recover_lockSurface(r) == IF r.ok THEN r.val ELSE r

\* recover_lock!, locks.rs:27-36
recover_lock(r) == IF r.ok THEN r.val ELSE into_inner(r)

\* Whether the drop of a guard sets the poison flag: the thread is
\* panicking and the guard is exclusive (a MutexGuard or RwLockWriteGuard).
Poisons(m) == m \in {"lock", "write"}

LockInit ==
    /\ T = "u8" /\ NoCells /\ NoClock
    /\ arg = Idle
    /\ res = Idle
    /\ kind \in {"Mutex", "RwLock"}
    /\ data = 0
    /\ poisoned = FALSE
    /\ threads = [t \in LockThreads |-> IdleThread]
    /\ clean = 0

\* Thread t runs a macro call c on the lock and gets what it yields.
AcquireLock(t, c) ==
    /\ threads[t].pc = "idle"
    /\ c.m \in Methods(kind)
    /\ Available(c.m)
    /\ LET r == LockResult(c.m)
       IN threads' = [threads EXCEPT ![t] =
              [pc |-> "holding", held |-> c.m, macro |-> c.macro,
               got |-> recover_lock(r), warned |-> ~r.ok, seen |-> data]]
    /\ UNCHANGED <<lifeVars, arg, res, timeVars, kind, data, poisoned, clean>>

\* Thread t stores v through its MutexGuard or RwLockWriteGuard.
GuardWrite(t, v) ==
    /\ threads[t].pc = "holding"
    /\ threads[t].held \in {"lock", "write"}
    /\ data' = v
    /\ UNCHANGED <<lifeVars, arg, res, timeVars, kind, poisoned, threads, clean>>

\* Thread t leaves its critical section: the guard is dropped and the
\* lock released.
GuardDrop(t) ==
    /\ threads[t].pc = "holding"
    /\ threads' = [threads EXCEPT ![t] = IdleThread]
    /\ clean' = IF threads[t].held \in {"lock", "write"} THEN data ELSE clean
    /\ UNCHANGED <<lifeVars, arg, res, timeVars, kind, data, poisoned>>

\* Thread t panics in its critical section: unwinding drops the guard,
\* which releases the lock and poisons it if the guard is exclusive.
ThreadPanic(t) ==
    /\ threads[t].pc = "holding"
    /\ threads' = [threads EXCEPT ![t] = [IdleThread EXCEPT !.pc = "panicked"]]
    /\ poisoned' = (poisoned \/ Poisons(threads[t].held))
    /\ UNCHANGED <<lifeVars, arg, res, timeVars, kind, data, clean>>

LockNext ==
    \/ \E t \in LockThreads, c \in MacroCalls : AcquireLock(t, c)
    \/ \E t \in LockThreads, v \in DataValues : GuardWrite(t, v)
    \/ \E t \in LockThreads : GuardDrop(t)
    \/ \E t \in LockThreads : ThreadPanic(t)

SpecLocks == LockInit /\ [][LockNext]_vars

Holding(t) == threads[t].pc = "holding"

\* C13: acquire_lock!, acquire_read_lock! and acquire_write_lock! never
\* surface a PoisonError: whatever earlier holders did, what a thread gets
\* from the macro is the guard of the method it called, and the guard
\* reads the protected data.
C13_AcquireYieldsGuard ==
    \A t \in LockThreads : Holding(t) =>
        /\ IsGuard(threads[t].got)
        /\ threads[t].got.guard = threads[t].held
        /\ threads[t].seen \in DataValues

\* C13 witness: a thread holds the guard of a lock that an earlier holder
\* poisoned by panicking.
C13_Witness ==
    \E t, u \in LockThreads :
        /\ Holding(t) /\ threads[t].warned /\ IsGuard(threads[t].got)
        /\ threads[u].pc = "panicked" /\ poisoned

\* C14: the guard that acquire_lock! returns for a poisoned lock exposes
\* the data as rolled back: what the panicking critical section stored is
\* not seen by a later holder.
C14_RollbackOnPanic ==
    \A t \in LockThreads :
        (Holding(t) /\ threads[t].warned) => threads[t].seen = clean

(***************************************************************************)
(* The hex codec, hex.rs:34-108, and Hex for ByteArray types,              *)
(* byte_array.rs:100-109.  A str is the sequence of its UTF-8 bytes.       *)
(***************************************************************************)

\* const MAX_BYTES_SIZE, hex.rs:35: the longest slice to_hex encodes.  The
\* source sets it to 262_144; the model scales it down, to the length of
\* the slices of the tests, so that the slices on both sides of the limit
\* are among those checked.
MAX_BYTES_SIZE == 4

\* The bytes of the slices encoded: those of hex.rs:127-129 and
\* byte_array.rs:117.
HexBytes == {0, 10, 128, 255}

\* "**String to large**"
StringTooLarge == <<42, 42, 83, 116, 114, 105, 110, 103, 32, 116, 111, 32, 108, 97, 114, 103, 101, 42, 42>>

\* The digit d < 16 as {:x} writes it.
LowerHexDigit(d) == IF d < 10 THEN 48 + d ELSE 87 + d

RECURSIVE LowerHex(_)
\* <u8 as LowerHex>::fmt: the digits of n, without leading zeros.
LowerHex(n) ==
    IF n < 16 THEN <<LowerHexDigit(n)>>
    ELSE LowerHex(n \div 16) \o <<LowerHexDigit(n % 16)>>

\* format!("{:2x}", byte): padded with a space.
Fmt2x(byte) ==
    LET d == LowerHex(byte) IN IF Len(d) < 2 THEN <<32>> \o d ELSE d

\* format!("{:02x}", byte), hex.rs:73: padded with zeros to two digits.
Fmt02x(byte) ==
    LET d == LowerHex(byte) IN IF Len(d) < 2 THEN <<48>> \o d ELSE d

\* A to_hex whose limit is one off: `>=` for `>`.
to_hexLimitOff(bytes) ==
    IF Len(bytes) >= MAX_BYTES_SIZE THEN StringTooLarge
    ELSE [i \in 1..(2 * Len(bytes)) |-> Fmt02x(bytes[(i + 1) \div 2])[((i - 1) % 2) + 1]]

\* hex::to_hex for T = u8, hex.rs:66-77: the two characters of each byte,
\* pushed in the order of the bytes.
to_hex(bytes) ==
    IF Len(bytes) > MAX_BYTES_SIZE THEN StringTooLarge
    ELSE [i \in 1..(2 * Len(bytes)) |-> Fmt02x(bytes[(i + 1) \div 2])[((i - 1) % 2) + 1]]

\* [0; n], as in hex.rs:164 and 171.
ZeroBytes(n) == [i \in 1..n |-> 0]

\* The slices encoded: every slice up to one byte over the limit, and the
\* slices of the tests.
ByteSlices ==
    SeqsUpTo(HexBytes, MAX_BYTES_SIZE + 1)
      \cup {<<10, 11, 12, 13>>, <<222, 173, 190, 239>>}
      \cup {ZeroBytes(MAX_BYTES_SIZE), ZeroBytes(MAX_BYTES_SIZE + 1)}

\* str::is_ascii
is_ascii(s) == \A i \in 1..Len(s) : s[i] < 128

\* str::is_char_boundary(i): the start, the end, or a byte that is not a
\* continuation byte.
is_char_boundary(s, i) ==
    i = 0 \/ i = Len(s) \/ (i < Len(s) /\ s[i + 1] \notin 128..191)

\* Whether &s[a..b] is a str; the index panics otherwise.
CanSlice(s, a, b) ==
    a <= b /\ b <= Len(s) /\ is_char_boundary(s, a) /\ is_char_boundary(s, b)

\* &s[a..b]
Slice(s, a, b) == SubSeq(s, a + 1, b)

\* The length in bytes of the White_Space character that starts at the
\* i-th byte of s (char::is_whitespace), 0 if none does.
WhitespaceAt(s, i) ==
    LET b(k) == IF i + k <= Len(s) THEN s[i + k] ELSE 0 IN
    IF i < 1 \/ i > Len(s) THEN 0
    ELSE IF s[i] \in 9..13 \/ s[i] = 32 THEN 1
    ELSE IF s[i] = 194 /\ b(1) \in {133, 160} THEN 2
    ELSE IF s[i] = 225 /\ b(1) = 154 /\ b(2) = 128 THEN 3
    ELSE IF s[i] = 226 /\ b(1) = 128 /\ (b(2) \in 128..138 \/ b(2) \in {168, 169, 175}) THEN 3
    ELSE IF s[i] = 226 /\ b(1) = 129 /\ b(2) = 159 THEN 3
    ELSE IF s[i] = 227 /\ b(1) = 128 /\ b(2) = 128 THEN 3
    ELSE 0

RECURSIVE TrimStart(_, _)
\* The index of the first byte of s, from i on, that starts no whitespace.
TrimStart(s, i) ==
    IF WhitespaceAt(s, i) = 0 THEN i ELSE TrimStart(s, i + WhitespaceAt(s, i))

RECURSIVE TrimEnd(_, _, _)
\* The index of the last byte of s, from j down to lo, that ends no
\* whitespace.
TrimEnd(s, lo, j) ==
    IF j < lo THEN j
    ELSE IF \E k \in 1..3 : j - k + 1 >= lo /\ WhitespaceAt(s, j - k + 1) = k
         THEN TrimEnd(s, lo, j - (CHOOSE k \in 1..3 : j - k + 1 >= lo /\ WhitespaceAt(s, j - k + 1) = k))
         ELSE j

\* str::trim: s without its leading and trailing whitespace.
trim(s) ==
    LET a == TrimStart(s, 1) IN SubSeq(s, a, TrimEnd(s, a, Len(s)))

\* char::to_digit(16), -1 for None.
to_digit(c) ==
    IF c \in 48..57 THEN c - 48
    ELSE IF c \in 97..102 THEN c - 87
    ELSE IF c \in 65..70 THEN c - 55
    ELSE -1

RECURSIVE RadixValue(_)
\* The number the hexadecimal digits write.
RadixValue(digits) ==
    IF digits = <<>> THEN 0
    ELSE 16 * RadixValue(SubSeq(digits, 1, Len(digits) - 1)) + to_digit(digits[Len(digits)])

\* u8::from_str_radix(src, 16): an optional `+`, then one or more digits
\* whose value fits a u8.
from_str_radix(src) ==
    IF src = <<>> THEN Err
    ELSE IF Len(src) = 1 /\ src[1] \in {43, 45} THEN Err
    ELSE LET digits == IF src[1] = 43 THEN Tail(src) ELSE src IN
         IF \E i \in 1..Len(digits) : to_digit(digits[i]) = -1 THEN Err
         ELSE IF RadixValue(digits) > 255 THEN Err
         ELSE Ok(RadixValue(digits))

\* Err(HexError::e), hex.rs:39-48
HexError(e) == [ok |-> FALSE, err |-> e]

\* The call does not return: it panics.
Panicked == [ok |-> FALSE, err |-> "panic"]

\* The Display of a HexError, hex.rs:42-47
Message(e) ==
    CASE e = "InvalidCharacter" -> "Only hexadecimal characters (0-9,a-f) are permitted"
      [] e = "LengthError" -> "Hex string lengths must be a multiple of 2"
      [] e = "HexConversionError" -> "Invalid hex representation for the target type"

RECURSIVE DecodePairs(_, _, _)
\* The loop of from_hex, hex.rs:104-106, from its i-th round on.
DecodePairs(hex_trim, i, result) ==
    IF i = Len(result) THEN Ok(result)
    ELSE IF ~CanSlice(hex_trim, 2 * i, 2 * (i + 1)) THEN Panicked
    ELSE LET byte == from_str_radix(Slice(hex_trim, 2 * i, 2 * (i + 1))) IN
         IF ~byte.ok THEN HexError("InvalidCharacter")
         ELSE DecodePairs(hex_trim, i + 1, [result EXCEPT ![i + 1] = byte.val])

\* A from_hex without the check of the length, hex.rs:91-93.
from_hexNoLengthCheck(hex_str) ==
    LET hex_trim == trim(hex_str) IN
    IF ~is_ascii(hex_str) THEN HexError("HexConversionError")
    ELSE IF Len(hex_trim) >= 2 /\ ~CanSlice(hex_trim, 0, 2) THEN Panicked
    ELSE LET rest == IF Len(hex_trim) >= 2 /\ Slice(hex_trim, 0, 2) = <<48, 120>>
                     THEN Slice(hex_trim, 2, Len(hex_trim))
                     ELSE hex_trim
             num_bytes == Len(rest) \div 2
         IN DecodePairs(rest, 0, [i \in 1..num_bytes |-> 0])

\* A from_hex without the check of is_ascii, hex.rs:94-96.
from_hexNoAsciiCheck(hex_str) ==
    LET hex_trim == trim(hex_str) IN
    IF Len(hex_trim) % 2 = 1 THEN HexError("LengthError")
    ELSE IF Len(hex_trim) >= 2 /\ ~CanSlice(hex_trim, 0, 2) THEN Panicked
    ELSE LET rest == IF Len(hex_trim) >= 2 /\ Slice(hex_trim, 0, 2) = <<48, 120>>
                     THEN Slice(hex_trim, 2, Len(hex_trim))
                     ELSE hex_trim
             num_bytes == Len(rest) \div 2
         IN DecodePairs(rest, 0, [i \in 1..num_bytes |-> 0])

\* A from_hex that does not trim its input.
from_hexNoTrim(hex_str) ==
    LET hex_trim == hex_str IN
    IF Len(hex_trim) % 2 = 1 THEN HexError("LengthError")
    ELSE IF ~is_ascii(hex_str) THEN HexError("HexConversionError")
    ELSE IF Len(hex_trim) >= 2 /\ ~CanSlice(hex_trim, 0, 2) THEN Panicked
    ELSE LET rest == IF Len(hex_trim) >= 2 /\ Slice(hex_trim, 0, 2) = <<48, 120>>
                     THEN Slice(hex_trim, 2, Len(hex_trim))
                     ELSE hex_trim
             num_bytes == Len(rest) \div 2
         IN DecodePairs(rest, 0, [i \in 1..num_bytes |-> 0])

\* hex::from_hex, hex.rs:88-108
from_hex(hex_str) ==
    LET hex_trim == trim(hex_str) IN
    IF Len(hex_trim) % 2 = 1 THEN HexError("LengthError")
    ELSE IF ~is_ascii(hex_str) THEN HexError("HexConversionError")
    ELSE IF Len(hex_trim) >= 2 /\ ~CanSlice(hex_trim, 0, 2) THEN Panicked
    ELSE LET rest == IF Len(hex_trim) >= 2 /\ Slice(hex_trim, 0, 2) = <<48, 120>>
                     THEN Slice(hex_trim, 2, Len(hex_trim))
                     ELSE hex_trim
             num_bytes == Len(rest) \div 2
         IN DecodePairs(rest, 0, [i \in 1..num_bytes |-> 0])

\* The ByteArray types: Vec<u8> and [u8; I], byte_array.rs:67 and 85.
VecU8 == [kind |-> "Vec<u8>", I |-> 0]

ArrayU8(I) == [kind |-> "[u8; I]", I |-> I]

ByteArrayTypes == {VecU8} \cup {ArrayU8(I) : I \in 0..(MAX_BYTES_SIZE + 1)}

\* A from_bytes for [u8; I] that refuses only slices that are too long and
\* leaves the rest of the array zero.
from_bytesAtMost(ta, bytes) ==
    IF ta.kind = "Vec<u8>" THEN Ok(bytes)
    ELSE IF Len(bytes) > ta.I THEN [ok |-> FALSE, err |-> "IncorrectLength"]
    ELSE Ok([i \in 1..ta.I |-> IF i <= Len(bytes) THEN bytes[i] ELSE 0])

\* ByteArray::from_bytes, byte_array.rs:76-78 for Vec<u8> and 86-93 for
\* [u8; I].
from_bytes(ta, bytes) ==
    IF ta.kind = "Vec<u8>" THEN Ok(bytes)
    ELSE IF Len(bytes) # ta.I THEN [ok |-> FALSE, err |-> "IncorrectLength"]
    ELSE Ok([i \in 1..ta.I |-> bytes[i]])

\* ByteArray::as_bytes, byte_array.rs:80-82 and 95-97: the bytes of x.
as_bytes(x) == x

\* <T as Hex>::from_hex, byte_array.rs:101-104
Hex_from_hex(ta, hex) ==
    LET v == from_hex(hex) IN
    IF ~v.ok THEN v
    ELSE IF from_bytes(ta, v.val).ok THEN from_bytes(ta, v.val)
    ELSE HexError("HexConversionError")

\* <T as Hex>::to_hex, byte_array.rs:106-108
Hex_to_hex(x) == to_hex(as_bytes(x))

MaxHexChars == 3

\* The whitespace put around a string: none, " " and "  " (hex.rs:136).
Pads == {<<>>, <<32>>, <<32, 32>>}

\* The characters of the strings decoded: "0", "a", "F", "x", "g", " ",
\* "+", a no-break space, "e" with an acute accent (two bytes) and U+1F596
\* (four bytes).
HexChars == {48, 97, 70, 120, 103, 32, 43, 160, 233, 128406}

\* The strings of the tests of hex.rs:132-182 and byte_array.rs:148.
TestStrs ==
    {<<48, 48, 48, 48, 48, 48, 48, 48>>,
     <<48, 97, 48, 98, 48, 99, 48, 100>>,
     <<32, 48, 97, 48, 98, 48, 99, 48, 100, 32, 32>>,
     <<48, 48, 48, 48, 48, 48, 102, 102>>,
     <<48, 120, 56, 48, 48, 48, 48, 48, 102, 102>>,
     <<56, 48, 48>>,
     <<56, 48, 56, 48, 103, 102>>,
     <<128406, 129396>>,
     <<49, 50, 51, 52, 53, 54, 55, 56, 57, 48, 65, 66, 67, 68, 69, 70, 71, 49>>,
     <<100, 101, 97, 100, 98, 101, 101, 102>>}

\* The strings decoded, as their UTF-8 bytes.
HexStrs == {IntoBytes(chars) : chars \in SeqsUpTo(HexChars, MaxHexChars) \cup TestStrs}

HexInit ==
    /\ LifeIdle
    /\ arg \in [op : {"bytes"}, bytes : ByteSlices] \cup [op : {"str"}, s : HexStrs]
    /\ res = Idle

\* to_hex(bytes)
ToHex ==
    /\ arg.op = "bytes"
    /\ res' = [op |-> "to_hex", out |-> to_hex(arg.bytes)]
    /\ UNCHANGED <<lifeVars, lockVars, timeVars, arg>>

\* from_hex(s)
FromHex ==
    /\ arg.op = "str"
    /\ res' = [op |-> "from_hex", out |-> from_hex(arg.s)]
    /\ UNCHANGED <<lifeVars, lockVars, timeVars, arg>>

\* from_hex(" s  "): s between spaces
FromHexPadded(pre, post) ==
    /\ arg.op = "str"
    /\ res' = [op |-> "from_hex(padded)", in |-> pre \o arg.s \o post,
               out |-> from_hex(pre \o arg.s \o post)]
    /\ UNCHANGED <<lifeVars, lockVars, timeVars, arg>>

\* from_hex("0x" + s)
FromHexPrefixed ==
    /\ arg.op = "str"
    /\ res' = [op |-> "from_hex(0x)", in |-> <<48, 120>> \o arg.s,
               out |-> from_hex(<<48, 120>> \o arg.s)]
    /\ UNCHANGED <<lifeVars, lockVars, timeVars, arg>>

\* from_hex(&to_hex(bytes))
RoundTrip ==
    /\ arg.op = "bytes"
    /\ res' = [op |-> "from_hex(to_hex)", out |-> from_hex(to_hex(arg.bytes))]
    /\ UNCHANGED <<lifeVars, lockVars, timeVars, arg>>

\* T::from_hex(&x.to_hex()) for x: T with the bytes of the input, T being
\* Vec<u8> or the array type of that length.
HexRoundTrip(ta) ==
    /\ arg.op = "bytes"
    /\ from_bytes(ta, arg.bytes).ok
    /\ LET x == from_bytes(ta, arg.bytes).val
       IN res' = [op |-> "T::from_hex(x.to_hex())", ta |-> ta,
                  out |-> Hex_from_hex(ta, Hex_to_hex(x))]
    /\ UNCHANGED <<lifeVars, lockVars, timeVars, arg>>

HexNext ==
    \/ ToHex
    \/ FromHex
    \/ \E pre \in Pads, post \in Pads : FromHexPadded(pre, post)
    \/ FromHexPrefixed
    \/ RoundTrip
    \/ \E ta \in ByteArrayTypes : HexRoundTrip(ta)

SpecHex == HexInit /\ [][HexNext]_vars

IsLowerHexChar(c) == c \in 48..57 \/ c \in 97..102

\* The value of the hexadecimal digit c.
HexValue(c) == IF c \in 48..57 THEN c - 48 ELSE c - 87

\* C16: to_hex never fails: for a slice of n <= MAX_BYTES_SIZE bytes it
\* returns 2*n lowercase hexadecimal characters, two per byte in the order
\* of the bytes, and for a longer slice the string "**String to large**".
C16_ToHexShape ==
    res.op = "to_hex" =>
        LET n == Len(arg.bytes) IN
        IF n <= MAX_BYTES_SIZE
        THEN /\ Len(res.out) = 2 * n
             /\ \A i \in 1..n :
                   /\ IsLowerHexChar(res.out[2 * i - 1]) /\ IsLowerHexChar(res.out[2 * i])
                   /\ 16 * HexValue(res.out[2 * i - 1]) + HexValue(res.out[2 * i]) = arg.bytes[i]
        ELSE res.out = StringTooLarge

\* C16 witness: [0; MAX_BYTES_SIZE + 1] gives "**String to large**"
\* (hex.rs:171-172).
C16_Witness ==
    /\ res.op = "to_hex"
    /\ arg.bytes = ZeroBytes(MAX_BYTES_SIZE + 1)
    /\ res.out = StringTooLarge
    /\ Len(res.out) = 19

\* C17: for every input whose trimmed length (str::len, in bytes) is odd,
\* from_hex returns Err(HexError::LengthError), whose message is "Hex
\* string lengths must be a multiple of 2".
C17_OddLengthIsLengthError ==
    (res.op = "from_hex" /\ Len(trim(arg.s)) % 2 = 1) =>
        /\ res.out = HexError("LengthError")
        /\ Message(res.out.err) = "Hex string lengths must be a multiple of 2"

\* C17 witness: from_hex("800") is the LengthError (hex.rs:152-160).
C17_Witness ==
    /\ res.op = "from_hex"
    /\ arg.s = <<56, 48, 48>>
    /\ res.out = HexError("LengthError")

\* C15: hex encoding round-trips: for every byte sequence b of at most
\* MAX_BYTES_SIZE bytes, from_hex(to_hex(b)) is Ok(b), and for x of a
\* ByteArray type T, T::from_hex(x.to_hex()) is Ok(x).
C15_HexRoundTrip ==
    (res.op \in {"from_hex(to_hex)", "T::from_hex(x.to_hex())"}
       /\ Len(arg.bytes) <= MAX_BYTES_SIZE)
        => res.out = Ok(arg.bytes)

\* C15 witness: [0xde, 0xad, 0xbe, 0xef] as a [u8; 4] comes back from
\* "deadbeef" (byte_array.rs:146-150).
C15_Witness ==
    /\ res.op = "T::from_hex(x.to_hex())"
    /\ res.ta = ArrayU8(4)
    /\ arg.bytes = <<222, 173, 190, 239>>
    /\ Hex_to_hex(arg.bytes) = <<100, 101, 97, 100, 98, 101, 101, 102>>
    /\ res.out = Ok(<<222, 173, 190, 239>>)

\* What is left of the trimmed input once an optional leading "0x" is
\* removed.
Digits(s) ==
    LET t == trim(s) IN
    IF Len(t) >= 2 /\ SubSeq(t, 1, 2) = <<48, 120>> THEN SubSeq(t, 3, Len(t)) ELSE t

IsHexDigit(c) == c \in 48..57 \/ c \in 97..102 \/ c \in 65..70

\* C18: for every ASCII input of even trimmed length in which, after an
\* optional leading "0x", a character is not a hexadecimal digit, from_hex
\* returns Err(HexError::InvalidCharacter), never Ok.
C18_NonHexIsInvalidCharacter ==
    (/\ res.op = "from_hex"
     /\ is_ascii(arg.s)
     /\ Len(trim(arg.s)) % 2 = 0
     /\ \E i \in 1..Len(Digits(arg.s)) : ~IsHexDigit(Digits(arg.s)[i]))
        => res.out = HexError("InvalidCharacter")

FromHexOps == {"from_hex", "from_hex(padded)", "from_hex(0x)"}

\* The string a from_hex call was given.
Input == IF res.op = "from_hex" THEN arg.s ELSE res.in

\* C19: from_hex is total: for every input it returns Ok or one of the
\* three HexErrors and never panics, and an input with a non-ASCII
\* character gives Err.
C19_FromHexIsTotal ==
    res.op \in FromHexOps =>
        /\ res.out # Panicked
        /\ res.out.ok \/ res.out.err \in {"InvalidCharacter", "LengthError", "HexConversionError"}
        /\ (\E i \in 1..Len(Input) : Input[i] >= 128) => ~res.out.ok

\* C19 witness: from_hex of U+1F596 U+1F974 is an Err (hex.rs:139-143).
C19_Witness ==
    /\ res.op = "from_hex"
    /\ arg.s = <<240, 159, 150, 150, 240, 159, 165, 180>>
    /\ res.out = HexError("HexConversionError")

\* The byte the i-th pair of digits of h writes.
PairValue(h, i) ==
    LET v(c) == IF c \in 48..57 THEN c - 48 ELSE IF c \in 97..102 THEN c - 87 ELSE c - 55
    IN 16 * v(h[2 * i - 1]) + v(h[2 * i])

\* C20: for every even-length string h of hexadecimal digits, from_hex(h),
\* from_hex of h between spaces and from_hex("0x" + h) return the same Ok
\* vector, whose i-th byte is the value of the i-th pair of digits.
C20_IgnoresPaddingAndPrefix ==
    (/\ res.op \in FromHexOps
     /\ Len(arg.s) % 2 = 0
     /\ \A i \in 1..Len(arg.s) : IsHexDigit(arg.s[i]))
        => res.out = Ok([i \in 1..(Len(arg.s) \div 2) |-> PairValue(arg.s, i)])

\* C20 witness: from_hex(" 0a0b0c0d  ") is [10, 11, 12, 13] (hex.rs:136).
C20_Witness ==
    /\ res.op = "from_hex(padded)"
    /\ arg.s = <<48, 97, 48, 98, 48, 99, 48, 100>>
    /\ res.in = <<32, 48, 97, 48, 98, 48, 99, 48, 100, 32, 32>>
    /\ res.out = Ok(<<10, 11, 12, 13>>)

(***************************************************************************)
(* ByteArray for Vec<u8> and [u8; I], byte_array.rs:42-98.                 *)
(***************************************************************************)

\* Vec::as_slice / <[u8]>::to_vec: the same bytes.
as_slice(v) == v

\* ByteArray::from_vec: Ok(v.clone()) for Vec<u8> (byte_array.rs:72-74),
\* the default Self::from_bytes(v.as_slice()) for [u8; I] (54-56).
from_vec(ta, v) ==
    IF ta.kind = "Vec<u8>" THEN Ok(v) ELSE from_bytes(ta, as_slice(v))

\* ByteArray::to_vec: self.clone() for Vec<u8> (byte_array.rs:68-70), the
\* default self.as_bytes().to_vec() for [u8; I] (44-46).
to_vec(ta, x) ==
    IF ta.kind = "Vec<u8>" THEN x ELSE as_bytes(x)

ByteArrayInit ==
    /\ LifeIdle
    /\ arg \in [op : {"bytes"}, bytes : ByteSlices]
    /\ res = Idle

\* T::from_bytes(&bytes)
FromBytes(ta) ==
    /\ res' = [op |-> "from_bytes", ta |-> ta, out |-> from_bytes(ta, arg.bytes)]
    /\ UNCHANGED <<lifeVars, lockVars, timeVars, arg>>

\* T::from_vec(&v)
FromVec(ta) ==
    /\ res' = [op |-> "from_vec", ta |-> ta, out |-> from_vec(ta, arg.bytes)]
    /\ UNCHANGED <<lifeVars, lockVars, timeVars, arg>>

\* T::from_vec(&v).unwrap().to_vec(), when from_vec is Ok
FromVecToVec(ta) ==
    /\ from_vec(ta, arg.bytes).ok
    /\ res' = [op |-> "from_vec.to_vec", ta |-> ta,
               out |-> to_vec(ta, from_vec(ta, arg.bytes).val)]
    /\ UNCHANGED <<lifeVars, lockVars, timeVars, arg>>

ByteArrayNext ==
    \/ \E ta \in ByteArrayTypes : FromBytes(ta)
    \/ \E ta \in ByteArrayTypes : FromVec(ta)
    \/ \E ta \in ByteArrayTypes : FromVecToVec(ta)

SpecByteArray == ByteArrayInit /\ [][ByteArrayNext]_vars

\* C21: <[u8; I]>::from_bytes(b) and from_vec(b) are
\* Err(ByteArrayError::IncorrectLength) exactly when b.len() # I and
\* otherwise the array of the bytes of b; from_vec(v).to_vec() is v for
\* Vec<u8> and for every [u8; I] with v.len() = I.
C21_FromBytesChecksLength ==
    /\ (res.op \in {"from_bytes", "from_vec"} /\ res.ta.kind = "[u8; I]") =>
          IF Len(arg.bytes) # res.ta.I
          THEN res.out = [ok |-> FALSE, err |-> "IncorrectLength"]
          ELSE /\ res.out.ok
               /\ Len(res.out.val) = res.ta.I
               /\ \A i \in 1..res.ta.I : res.out.val[i] = arg.bytes[i]
    /\ res.op = "from_vec.to_vec" =>
          /\ res.out = arg.bytes
          /\ res.ta.kind = "[u8; I]" => Len(arg.bytes) = res.ta.I
    /\ (arg.op = "bytes" /\ res.op = "idle") =>
          \A ta \in ByteArrayTypes :
              (ta.kind = "Vec<u8>" \/ Len(arg.bytes) = ta.I) => from_vec(ta, arg.bytes).ok

\* C21 witness: <[u8; 4]>::from_vec(&v).unwrap().to_vec() is v, for a v of
\* four bytes (byte_array.rs:134-136).
C21_Witness ==
    /\ res.op = "from_vec.to_vec"
    /\ res.ta = ArrayU8(4)
    /\ arg.bytes = <<10, 11, 12, 13>>
    /\ res.out = <<10, 11, 12, 13>>

(***************************************************************************)
(* checked_bits_to_uint, bit.rs:59-74.  A usize is written in base 2^16,   *)
(* least significant limb first: size_of::<usize>() / 2 limbs.             *)
(***************************************************************************)

MaxBits == 3

\* mem::size_of::<usize>() on the targets of 32 and of 64 bits.
UsizeSizes == {4, 8}

\* const PTR_SIZE_BITS: usize = mem::size_of::<usize>() * 8, bit.rs:63
PTR_SIZE_BITS(size_of_usize) == size_of_usize * 8

Limbs(size_of_usize) == 1..(size_of_usize \div 2)

\* let mut value: usize = 0, bit.rs:68
ZeroUsize(size_of_usize) == [k \in Limbs(size_of_usize) |-> 0]

\* bits[i] as usize: 1 for true, 0 for false.
BoolAsUsize(b, size_of_usize) ==
    [k \in Limbs(size_of_usize) |-> IF k = 1 /\ b THEN 1 ELSE 0]

\* Whether bit k (from 0) of the usize x is set.
BitSet(x, k) == (x[(k \div 16) + 1] \div (2 ^ (k % 16))) % 2 = 1

RECURSIVE SumPow(_)
\* The limb whose set bits are those of B.
SumPow(B) ==
    IF B = {} THEN 0
    ELSE LET b == CHOOSE c \in B : TRUE IN (2 ^ b) + SumPow(B \ {b})

\* x << n for n below the width: bit k of the result is bit k - n of x.
Shl(x, n) ==
    [j \in DOMAIN x |->
        SumPow({b \in 0..15 : 16 * (j - 1) + b >= n /\ BitSet(x, 16 * (j - 1) + b - n)})]

\* value |= t for every t of terms, from value = 0: a bit is set in the
\* result when a term sets it.
OrAll(terms, size_of_usize) ==
    [j \in Limbs(size_of_usize) |->
        SumPow({b \in 0..15 : \E t \in terms : BitSet(t, 16 * (j - 1) + b)})]

\* Option<usize>
None == [some |-> FALSE]

Some(v) == [some |-> TRUE, val |-> v]

\* The loop of bit.rs:68-72 on value = 0.  A shift by the width or more
\* panics where overflow checks are compiled in and shifts by i % width
\* where they are not.
BitsLoop(bits, size_of_usize, overflow_checks) ==
    IF Len(bits) > PTR_SIZE_BITS(size_of_usize) /\ overflow_checks THEN Panicked
    ELSE Some(OrAll({Shl(BoolAsUsize(bits[i + 1], size_of_usize),
                         i % PTR_SIZE_BITS(size_of_usize)) : i \in 0..(Len(bits) - 1)}
                      \cup {ZeroUsize(size_of_usize)},
                    size_of_usize))

\* A checked_bits_to_uint without the check of the length.
bits_to_uintUnchecked(bits, size_of_usize, overflow_checks) ==
    BitsLoop(bits, size_of_usize, overflow_checks)

\* bit::checked_bits_to_uint, bit.rs:62-74
checked_bits_to_uint(bits, size_of_usize, overflow_checks) ==
    IF Len(bits) > PTR_SIZE_BITS(size_of_usize) THEN None
    ELSE BitsLoop(bits, size_of_usize, overflow_checks)

\* [b; n]
Repeat(b, n) == [i \in 1..n |-> b]

\* The bit slices converted: the short ones, and for the lengths around
\* the width and for 128 (tests/mod.rs:42-66) the slices of one value and
\* those with one bit set.
BitSlices(size_of_usize) ==
    SeqsUpTo(BOOLEAN, MaxBits)
      \cup UNION {{Repeat(FALSE, n), Repeat(TRUE, n)}
                    \cup {[i \in 1..n |-> i = k] : k \in 1..n}
                  : n \in {PTR_SIZE_BITS(size_of_usize) - 1, PTR_SIZE_BITS(size_of_usize),
                           PTR_SIZE_BITS(size_of_usize) + 1, 128}}

BitInit ==
    /\ LifeIdle
    /\ \E sz \in UsizeSizes :
          arg \in [op : {"bits"}, bits : BitSlices(sz), size_of_usize : {sz},
                   overflow_checks : BOOLEAN]
    /\ res = Idle

\* checked_bits_to_uint(&bits)
CheckedBitsToUint ==
    /\ res' = [op |-> "checked_bits_to_uint",
               out |-> checked_bits_to_uint(arg.bits, arg.size_of_usize, arg.overflow_checks)]
    /\ UNCHANGED <<lifeVars, lockVars, timeVars, arg>>

BitNext == CheckedBitsToUint

SpecBit == BitInit /\ [][BitNext]_vars

\* The sum of 2^i over the indices i (from 0) of the true bits, in base
\* 2^16: its limb j is the sum of 2^b over the true bits[16 * (j - 1) + b].
LittleEndianValue(bits, size_of_usize) ==
    [j \in Limbs(size_of_usize) |->
        SumPow({b \in 0..15 : 16 * (j - 1) + b < Len(bits) /\ bits[16 * (j - 1) + b + 1]})]

\* C22: checked_bits_to_uint(bits) is None exactly when bits.len() exceeds
\* the number of bits of a usize, no shift overflows, and otherwise it is
\* Some of the little-endian value, the sum of 2^i over the true bits[i].
C22_BitsToUint ==
    res.op = "checked_bits_to_uint" =>
        /\ res.out # Panicked
        /\ IF Len(arg.bits) > 8 * arg.size_of_usize
           THEN res.out = None
           ELSE res.out = Some(LittleEndianValue(arg.bits, arg.size_of_usize))

\* C22 witness: on a target of 64 bits, 64 true bits are usize::MAX.
C22_Witness ==
    /\ res.op = "checked_bits_to_uint"
    /\ arg.size_of_usize = 8
    /\ arg.bits = Repeat(TRUE, 64)
    /\ res.out = Some(<<65535, 65535, 65535, 65535>>)

(***************************************************************************)
(* EpochTime::now, epoch_time.rs:34-47, on the system clock.               *)
(***************************************************************************)

MaxSecs == 3

MaxCalls == 2

\* The readings of the system clock, as seconds and nanoseconds from
\* 1970-01-01 00:00:00 UTC; a clock set before it has secs < 0.
Clocks == [secs : (-1)..MaxSecs, nanos : {0, 500000000}]

\* std::time::UNIX_EPOCH
UNIX_EPOCH == [secs |-> 0, nanos |-> 0]

\* SystemTime::duration_since(earlier): the Duration from earlier to t, an
\* Err when t is before earlier.
duration_since(t, earlier) ==
    IF t.secs < earlier.secs \/ (t.secs = earlier.secs /\ t.nanos < earlier.nanos) THEN Err
    ELSE IF t.nanos >= earlier.nanos
         THEN Ok([secs |-> t.secs - earlier.secs, nanos |-> t.nanos - earlier.nanos])
         ELSE Ok([secs |-> t.secs - earlier.secs - 1,
                  nanos |-> t.nanos + 1000000000 - earlier.nanos])

\* Duration::as_secs: the whole seconds.
as_secs(d) == d.secs

\* struct EpochTime(u64), epoch_time.rs:36
EpochTime(secs) == [secs |-> secs]

\* The derived PartialOrd of EpochTime: that of its u64.
EpochTimeLe(a, b) == a.secs <= b.secs

\* EpochTime::now() when SystemTime::now() reads system_time,
\* epoch_time.rs:40-47: expect panics on an Err.
EpochTime_now(system_time) ==
    LET d == duration_since(system_time, UNIX_EPOCH) IN
    IF ~d.ok THEN Panicked ELSE Ok(EpochTime(as_secs(d.val)))

TimeInit ==
    /\ T = "u8" /\ NoCells /\ NoLock
    /\ arg = Idle
    /\ res = Idle
    /\ clock \in Clocks
    /\ stamps = <<>>

\* Time passes: the clock advances by half a second.
ClockTick ==
    /\ clock.secs < MaxSecs \/ clock.nanos = 0
    /\ clock' = IF clock.nanos = 0 THEN [clock EXCEPT !.nanos = 500000000]
                ELSE [secs |-> clock.secs + 1, nanos |-> 0]
    /\ UNCHANGED <<lifeVars, arg, res, lockVars, stamps>>

\* The system clock is set, by its owner or by a time service: SystemTime
\* is the wall clock and can be stepped to an earlier reading.
ClockSet(t) ==
    /\ t # clock
    /\ clock' = t
    /\ UNCHANGED <<lifeVars, arg, res, lockVars, stamps>>

\* The program calls EpochTime::now(), after the calls before it have
\* returned; a panic ends it.
Now ==
    /\ Len(stamps) < MaxCalls
    /\ \A i \in 1..Len(stamps) : stamps[i].ok
    /\ stamps' = Append(stamps, EpochTime_now(clock))
    /\ UNCHANGED <<lifeVars, arg, res, lockVars, clock>>

TimeNext ==
    \/ ClockTick
    \/ \E t \in Clocks : ClockSet(t)
    \/ Now

SpecTime == TimeInit /\ [][TimeNext]_vars

\* C23: EpochTime timestamps are monotonic: of two calls of
\* EpochTime::now(), the first returning before the second starts, the
\* result of the first is less than or equal to that of the second.
C23_NowIsMonotonic ==
    \A i, j \in 1..Len(stamps) :
        (i < j /\ stamps[i].ok /\ stamps[j].ok) => EpochTimeLe(stamps[i].val, stamps[j].val)

====
